---------------------------- MODULE Spec2Model ----------------------------
(***************************************************************************)
(* A model of ssws.py, the "Stupid Simple Web Scanner": name               *)
(* normalisation, DNS resolution and grouping, dynamic-DNS detection, the  *)
(* three HTTP probes and the scan loop of main().                          *)
(*                                                                         *)
(* A Python str is a sequence of one-character strings, so that            *)
(* startswith, slicing, strip and the code-point order of sorted() are     *)
(* computed and not assumed.  None is the empty tuple <<>> and a present    *)
(* optional value v is <<v>>.                                              *)
(***************************************************************************)
EXTENDS Integers, Sequences, FiniteSets, TLC

VARIABLES
    \* normalize_fqdns applied to a list, and to its own output
    fqdnsIn, out1, out2, npc,
    \* one content probe (check_wordpress / check_robots) on one response
    pKind, pReply, pResult, ppc,
    \* one call of detect_dynamic_dns
    dAnswers, dResult, dpc,
    \* main()
    file, args_wp, args_robots, ports, normalized_fqdns, fqdn_to_ip,
    grouped_fqdns, gi, hi, pi, results, sent, detects, pc

normVars  == <<fqdnsIn, out1, out2, npc>>
probeVars == <<pKind, pReply, pResult, ppc>>
dynVars   == <<dAnswers, dResult, dpc>>
mainVars  == <<file, args_wp, args_robots, ports, normalized_fqdns, fqdn_to_ip,
               grouped_fqdns, gi, hi, pi, results, sent, detects, pc>>
vars      == <<normVars, probeVars, dynVars, mainVars>>

None == <<>>

(***************************************************************************)
(* Strings                                                                 *)
(***************************************************************************)

\* ord() of the characters that occur in the model's strings
Ord == [c \in {" ", ".", "a", "b", "c", "m", "o", "w"} |->
          CASE c = " " -> 32 [] c = "." -> 46 [] c = "a" -> 97 [] c = "b" -> 98
            [] c = "c" -> 99 [] c = "m" -> 109 [] c = "o" -> 111 [] c = "w" -> 119]

Whitespace == {" "}

WWW == <<"w", "w", "w", ".">>
SP == <<" ">>
A_COM == <<"a", ".", "c", "o", "m">>
B_COM == <<"b", ".", "c", "o", "m">>

Range(s) == {s[i] : i \in DOMAIN s}

\* s.startswith(p)
StartsWith(s, p) == Len(s) >= Len(p) /\ SubSeq(s, 1, Len(p)) = p

RECURSIVE LStrip(_)
LStrip(s) == IF s # <<>> /\ Head(s) \in Whitespace THEN LStrip(Tail(s)) ELSE s

RECURSIVE RStrip(_)
RStrip(s) ==
    IF s # <<>> /\ s[Len(s)] \in Whitespace THEN RStrip(SubSeq(s, 1, Len(s) - 1)) ELSE s

\* s.strip()
Strip(s) == RStrip(LStrip(s))

\* a < b for two str: the first differing character decides, a proper prefix is less
StrLess(a, b) ==
    \E k \in 1..(Len(a) + 1) :
        /\ k <= Len(b)
        /\ \A i \in 1..(k - 1) : a[i] = b[i]
        /\ k <= Len(a) => Ord[a[k]] < Ord[b[k]]

\* sorted(S) for a set S of str
RECURSIVE Sorted(_)
Sorted(S) ==
    IF S = {} THEN <<>>
    ELSE LET m == CHOOSE x \in S : \A y \in S \ {x} : StrLess(x, y)
         IN  <<m>> \o Sorted(S \ {m})

\* sorted(l) for a list l of str, repeated elements kept
RECURSIVE SortedList(_)
SortedList(l) ==
    IF l = <<>> THEN <<>>
    ELSE LET k == CHOOSE i \in DOMAIN l : \A j \in DOMAIN l : ~StrLess(l[j], l[i])
         IN  <<l[k]>> \o SortedList(SubSeq(l, 1, k - 1) \o SubSeq(l, k + 1, Len(l)))

(***************************************************************************)
(* normalize_fqdns                                                         *)
(***************************************************************************)

\* a plausible bug: the leading "www." is not removed
BaseNameKeepWww(fqdn) == Strip(fqdn)

\* the loop body of lines 13-17: what one input string adds to `normalized`
BaseName(fqdn) ==
    LET f == Strip(fqdn)
    IN  IF StartsWith(f, WWW) THEN SubSeq(f, 5, Len(f)) ELSE f

\* lines 20-23: each sorted base name followed by its "www." form
RECURSIVE FullList(_)
FullList(sorted_fqdns) ==
    IF sorted_fqdns = <<>> THEN <<>>
    ELSE <<Head(sorted_fqdns), WWW \o Head(sorted_fqdns)>> \o FullList(Tail(sorted_fqdns))

\* a plausible bug: line 25 sorts the list without making it a set first
normalize_fqdns_no_set(fqdns) ==
    SortedList(FullList(Sorted({BaseName(fqdns[i]) : i \in DOMAIN fqdns})))

\* a plausible bug: line 25 returns full_list as built (base, www.base pairs)
normalize_fqdns_pairs(fqdns) ==
    FullList(Sorted({BaseName(fqdns[i]) : i \in DOMAIN fqdns}))

normalize_fqdns(fqdns) ==
    LET normalized == {BaseName(fqdns[i]) : i \in DOMAIN fqdns}
        sorted_fqdns == Sorted(normalized)
        full_list == FullList(sorted_fqdns)
    IN  Sorted(Range(full_list))

\* main, line 106: [line.strip() for line in file if line.strip()]
RECURSIVE ReadLines(_)
ReadLines(f) ==
    IF f = <<>> THEN <<>>
    ELSE IF Strip(Head(f)) # <<>> THEN <<Strip(Head(f))>> \o ReadLines(Tail(f))
         ELSE ReadLines(Tail(f))

(***************************************************************************)
(* Bounds of the inputs                                                    *)
(***************************************************************************)

MaxLines == 3
MaxWww == 2

PrefixDepths == 0..MaxWww
Pads == {<<>>, SP}
Bases == {A_COM, B_COM}

RECURSIVE Www(_)
Www(n) == IF n = 0 THEN <<>> ELSE WWW \o Www(n - 1)

\* the lines an input file may hold: host names under zero or more "www."
\* prefixes, possibly with a blank in front of the base name, and a blank line
FileLines == {Www(j) \o p \o b : j \in PrefixDepths, p \in Pads, b \in Bases} \cup {SP}

SeqsUpTo(S, n) == UNION {[1..k -> S] : k \in 0..n}

(***************************************************************************)
(* The HTTP probes                                                         *)
(*                                                                         *)
(* What the network answers is the environment's choice.  A response is    *)
(* [ok |-> FALSE] when requests raises a RequestException, and otherwise   *)
(* carries the status code and, for a GET, the body, or, for the HEAD of   *)
(* grab_banner, the optional Server header.  A body is a sequence of text  *)
(* fragments; `marker in content` holds when a fragment is the marker.     *)
(***************************************************************************)

HTTPS_PORT == 443
HTTP_OK == 200
REDIRECT_MIN == 300
REDIRECT_END == 400

Failed == [ok |-> FALSE]

\* the url of lines 54-56, 63-65, 81-83
Url(fqdn, port, path) ==
    [scheme |-> IF port = HTTPS_PORT THEN "https" ELSE "http",
     host |-> fqdn, port |-> port, path |-> path]

\* termcolor.colored(text, color), and a str printed as it is
colored(text, color) == [text |-> text, color |-> color]
plain(text) == [text |-> text, color |-> ""]

BodyFragments ==
    {"Username or Email Address", "wp-includes", "https://wordpress.org",
     "User-agent:", "disallow:", "<html>hello</html>"}

\* str.lower() of one fragment
LowerFragment(t) ==
    CASE t = "Username or Email Address" -> "username or email address"
      [] t = "User-agent:" -> "user-agent:"
      [] OTHER -> t

\* response.text.lower()
lower(text) == [i \in DOMAIN text |-> LowerFragment(text[i])]

\* marker in content
In(marker, content) == \E i \in DOMAIN content : content[i] = marker

\* lines 52-60
grab_banner(reply) ==
    IF reply.ok
    THEN <<IF reply.server = None THEN "Unknown" ELSE reply.server[1], <<reply.status_code>>>>
    ELSE <<"No Response", None>>

\* a plausible bug: the status code is not looked at
check_wordpress_any_status(reply) ==
    IF reply.ok
    THEN LET content == lower(reply.text)
         IN  IF \/ In("username or email address", content)
                \/ In("wp-includes", content)
                \/ In("https://wordpress.org", content)
             THEN <<colored("WordPress detected!", "green"), <<reply.status_code>>>>
             ELSE <<colored("No WordPress instance found.", "red"), <<reply.status_code>>>>
    ELSE <<plain("No Response"), None>>

\* a plausible bug: a failed request is reported like a negative answer
check_wordpress_conflate(reply) ==
    IF reply.ok
    THEN LET content == lower(reply.text)
         IN  IF /\ reply.status_code = HTTP_OK
                /\ \/ In("username or email address", content)
                   \/ In("wp-includes", content)
                   \/ In("https://wordpress.org", content)
             THEN <<colored("WordPress detected!", "green"), <<reply.status_code>>>>
             ELSE <<colored("No WordPress instance found.", "red"), <<reply.status_code>>>>
    ELSE <<colored("No WordPress instance found.", "red"), None>>

\* lines 62-78, given the response to the GET of /wp-login.php
check_wordpress(reply) ==
    IF reply.ok
    THEN LET content == lower(reply.text)
         IN  IF /\ reply.status_code = HTTP_OK
                /\ \/ In("username or email address", content)
                   \/ In("wp-includes", content)
                   \/ In("https://wordpress.org", content)
             THEN <<colored("WordPress detected!", "green"), <<reply.status_code>>>>
             ELSE <<colored("No WordPress instance found.", "red"), <<reply.status_code>>>>
    ELSE <<plain("No Response"), None>>

\* lines 80-92, given the response to the GET of /robots.txt
check_robots(reply) ==
    IF reply.ok
    THEN LET content == lower(reply.text)
         IN  IF /\ reply.status_code = HTTP_OK
                /\ In("user-agent:", content) \/ In("disallow:", content)
             THEN <<colored("robots.txt found!", "green"), <<reply.status_code>>>>
             ELSE <<colored("No robots.txt found.", "red"), <<reply.status_code>>>>
    ELSE <<plain("No Response"), None>>

(***************************************************************************)
(* DNS                                                                     *)
(*                                                                         *)
(* An answer of socket.gethostbyname is <<address>>, or None when it       *)
(* raises socket.gaierror.                                                 *)
(***************************************************************************)

ATTEMPTS == 3

\* lines 27-31
resolve_ip(answer) == answer

\* the loop of lines 36-38 from attempt i on, inside the try of line 34:
\* the first gaierror leaves the loop for the except clause of lines 40-41
RECURSIVE DynLoop(_, _, _)
DynLoop(answers, i, ips) ==
    IF i > ATTEMPTS THEN [dynamic |-> Cardinality(ips) > 1, lookups |-> ATTEMPTS]
    ELSE IF answers[i] = None THEN [dynamic |-> FALSE, lookups |-> i]
    ELSE DynLoop(answers, i + 1, ips \cup {answers[i][1]})

\* lines 33-41: the value returned, and the gethostbyname calls made
detect_dynamic_dns(answers) == DynLoop(answers, 1, {})

(***************************************************************************)
(* main                                                                    *)
(***************************************************************************)

\* lines 95-103: the parser defines -i, --wp, --robots and -p and nothing
\* else, so no run can ask for dynamic-DNS detection
args_dynamic == FALSE

\* a plausible bug: the reachability gate of lines 126-127 is missing
NoStatusNever(status_code) == FALSE

\* line 126, `not status_code`: None (and 0) are false
NoStatus(status_code) == status_code = None \/ status_code = <<0>>

\* lines 118-119 for one item: grouped_fqdns[ip].append(fqdn), a new key
\* going to the end of the dict
GroupInsert(groups, ip, fqdn) ==
    IF \E k \in DOMAIN groups : groups[k].ip = ip
    THEN [k \in DOMAIN groups |->
            IF groups[k].ip = ip
            THEN [groups[k] EXCEPT !.fqdns = Append(@, fqdn)]
            ELSE groups[k]]
    ELSE Append(groups, [ip |-> ip, fqdns |-> <<fqdn>>])

RECURSIVE GroupFrom(_, _, _, _)
GroupFrom(names, to_ip, i, groups) ==
    IF i > Len(names) THEN groups
    ELSE GroupFrom(names, to_ip, i + 1, GroupInsert(groups, to_ip[names[i]], names[i]))

Reverse(s) == [i \in DOMAIN s |-> s[Len(s) + 1 - i]]

\* a plausible bug: the groups are walked latest first
GroupByLatestFirst(names, to_ip) == Reverse(GroupFrom(names, to_ip, 1, <<>>))

\* lines 115-119: the items of grouped_fqdns in the order of the dict, the
\* keys of fqdn_to_ip being in the order of normalized_fqdns
GroupBy(names, to_ip) == GroupFrom(names, to_ip, 1, <<>>)

\* lines 130-145: the line appended for a target that answered
ResultLine(fqdn, port, status_code, wp, robots, banner, dynamic) ==
    [fqdn |-> fqdn, port |-> port, status_code |-> status_code,
     redirect |-> /\ status_code # None
                  /\ REDIRECT_MIN <= status_code[1]
                  /\ status_code[1] < REDIRECT_END,
     wp |-> wp, robots |-> robots, banner |-> banner,
     dynamic_dns |-> IF dynamic THEN "Yes" ELSE "No"]

\* line 148: results.append("")
EmptyLine == [fqdn |-> <<>>]

\* what the log of requests keeps of one request
Request(probe, fqdn, port, path, reply) ==
    [probe |-> probe, url |-> Url(fqdn, port, path), reply |-> reply]

\* lines 103-109: the arguments are parsed, the file is read and normalised
LoadInput ==
    /\ pc = "start"
    /\ normalized_fqdns' = normalize_fqdns(ReadLines(file))
    /\ pc' = "check"
    /\ UNCHANGED <<file, args_wp, args_robots, ports, fqdn_to_ip, grouped_fqdns,
                   gi, hi, pi, results, sent, detects>>
    /\ UNCHANGED <<normVars, probeVars, dynVars>>

\* lines 111-113: sys.exit(1) when no check was asked for
UsageError ==
    /\ pc = "check"
    /\ ~args_wp /\ ~args_robots
    /\ pc' = "exit"
    /\ UNCHANGED <<file, args_wp, args_robots, ports, normalized_fqdns, fqdn_to_ip,
                   grouped_fqdns, gi, hi, pi, results, sent, detects>>
    /\ UNCHANGED <<normVars, probeVars, dynVars>>

\* lines 115-121: every name is resolved once, the names are grouped by
\* address, results starts empty
ResolveAll(Addrs) ==
    /\ pc = "check"
    /\ args_wp \/ args_robots
    /\ \E answers \in [Range(normalized_fqdns) -> {None} \cup {<<a>> : a \in Addrs}] :
          /\ fqdn_to_ip' = [f \in Range(normalized_fqdns) |-> resolve_ip(answers[f])]
          /\ grouped_fqdns' = GroupBy(normalized_fqdns, fqdn_to_ip')
    /\ gi' = 1 /\ hi' = 1 /\ pi' = 1
    /\ results' = <<>>
    /\ pc' = "scan"
    /\ UNCHANGED <<file, args_wp, args_robots, ports, normalized_fqdns, sent, detects>>
    /\ UNCHANGED <<normVars, probeVars, dynVars>>

\* lines 124-145: one pass of the innermost loop, for the port at pi of the
\* host at hi of the group at gi.  The network lets at most MaxAnswers targets
\* of a run answer the HEAD request; detects, the number of calls of
\* detect_dynamic_dns (line 129), is the number of targets that answered.
ScanTarget(BannerReplies, WpReplies, RobotsReplies, DnsAnswers, MaxAnswers) ==
    /\ pc = "scan"
    /\ gi <= Len(grouped_fqdns)
    /\ hi <= Len(grouped_fqdns[gi].fqdns)
    /\ LET fqdn == grouped_fqdns[gi].fqdns[hi]
           port == ports[pi]
       IN  \E head \in {h \in BannerReplies : h.ok => detects < MaxAnswers},
              wpReply \in WpReplies,
              robotsReply \in RobotsReplies, answers \in DnsAnswers :
             LET banner == grab_banner(head)[1]
                 status_code == grab_banner(head)[2]
                 asked == <<Request("banner", fqdn, port, "/", head)>>
             IN  IF NoStatus(status_code)
                 THEN /\ sent' = sent \o asked
                      /\ UNCHANGED <<results, detects>>
                 ELSE LET dynamic == detect_dynamic_dns(answers).dynamic
                          wp == IF args_wp THEN <<check_wordpress(wpReply)[1]>> ELSE None
                          robots == IF args_robots
                                    THEN <<check_robots(robotsReply)[1]>> ELSE None
                      IN  /\ sent' = sent \o asked
                                \o (IF args_wp
                                    THEN <<Request("wp", fqdn, port, "/wp-login.php", wpReply)>>
                                    ELSE <<>>)
                                \o (IF args_robots
                                    THEN <<Request("robots", fqdn, port, "/robots.txt", robotsReply)>>
                                    ELSE <<>>)
                          /\ detects' = detects + 1
                          /\ results' = Append(results,
                                ResultLine(fqdn, port, status_code, wp, robots, banner, dynamic))
    /\ IF pi < Len(ports)
       THEN pi' = pi + 1 /\ hi' = hi
       ELSE pi' = 1 /\ hi' = hi + 1
    /\ UNCHANGED <<file, args_wp, args_robots, ports, normalized_fqdns, fqdn_to_ip,
                   grouped_fqdns, gi, pc>>
    /\ UNCHANGED <<normVars, probeVars, dynVars>>

\* line 148: after the last host of a group
EndGroup ==
    /\ pc = "scan"
    /\ gi <= Len(grouped_fqdns)
    /\ hi > Len(grouped_fqdns[gi].fqdns)
    /\ results' = Append(results, EmptyLine)
    /\ gi' = gi + 1 /\ hi' = 1 /\ pi' = 1
    /\ UNCHANGED <<file, args_wp, args_robots, ports, normalized_fqdns, fqdn_to_ip,
                   grouped_fqdns, sent, detects, pc>>
    /\ UNCHANGED <<normVars, probeVars, dynVars>>

\* line 150: after the last group
PrintResults ==
    /\ pc = "scan"
    /\ gi > Len(grouped_fqdns)
    /\ pc' = "done"
    /\ UNCHANGED <<file, args_wp, args_robots, ports, normalized_fqdns, fqdn_to_ip,
                   grouped_fqdns, gi, hi, pi, results, sent, detects>>
    /\ UNCHANGED <<normVars, probeVars, dynVars>>

(***************************************************************************)
(* The environment of a scan                                               *)
(***************************************************************************)

Answered(status_code, server) ==
    [ok |-> TRUE, status_code |-> status_code, server |-> server]
Page(status_code, text) == [ok |-> TRUE, status_code |-> status_code, text |-> text]

Addr1 == "192.0.2.1"
Addr2 == "192.0.2.2"
Addr3 == "192.0.2.3"

\* what a HEAD of / may bring
HeadReplies == {Failed, Answered(200, <<"nginx">>), Answered(301, None)}
\* what a GET of /wp-login.php may bring
WpReplies ==
    {Failed, Page(200, <<"wp-includes">>), Page(404, <<"<html>hello</html>">>)}
\* what a GET of /robots.txt may bring
RobotsReplies == {Failed, Page(200, <<"User-agent:", "disallow:">>)}
\* what the three lookups of detect_dynamic_dns may bring
LookupRuns ==
    {<<<<Addr1>>, <<Addr1>>, <<Addr1>>>>, <<<<Addr1>>, <<Addr2>>, <<Addr1>>>>,
     <<<<Addr1>>, <<Addr2>>, None>>}

IdleNorm == fqdnsIn = <<>> /\ out1 = <<>> /\ out2 = <<>> /\ npc = "idle"
IdleProbe == pKind = "" /\ pReply = Failed /\ pResult = <<>> /\ ppc = "idle"
IdleDyn == dAnswers = <<>> /\ dResult = <<>> /\ dpc = "idle"
IdleMain ==
    /\ file = <<>> /\ args_wp = FALSE /\ args_robots = FALSE /\ ports = <<>>
    /\ normalized_fqdns = <<>> /\ fqdn_to_ip = <<>> /\ grouped_fqdns = <<>>
    /\ gi = 1 /\ hi = 1 /\ pi = 1 /\ results = <<>> /\ sent = <<>> /\ detects = 0
    /\ pc = "idle"

\* main is entered with a file, the two flags and the port list
MainInit(Files, PortLists, Flags) ==
    /\ file \in Files
    /\ ports \in PortLists
    /\ \E f \in Flags : args_wp = f[1] /\ args_robots = f[2]
    /\ normalized_fqdns = <<>> /\ fqdn_to_ip = <<>> /\ grouped_fqdns = <<>>
    /\ gi = 1 /\ hi = 1 /\ pi = 1 /\ results = <<>> /\ sent = <<>> /\ detects = 0
    /\ pc = "start"

(***************************************************************************)
(* Spec: a scan of one domain on one or two ports, every answer of the     *)
(* network, at most MaxAnswering targets answering                         *)
(***************************************************************************)

MaxAnswering == 2

Init ==
    /\ IdleNorm /\ IdleProbe /\ IdleDyn
    /\ MainInit({<<WWW \o A_COM>>}, {<<80>>, <<443, 80>>}, BOOLEAN \X BOOLEAN)

Next ==
    \/ LoadInput
    \/ UsageError
    \/ ResolveAll({Addr1})
    \/ ScanTarget(HeadReplies, WpReplies, RobotsReplies, LookupRuns, MaxAnswering)
    \/ EndGroup
    \/ PrintResults

Spec == Init /\ [][Next]_vars

(***************************************************************************)
(* SpecGroups: a scan of two domains on two ports, the network answering   *)
(* or not, every content probe answered 404                                *)
(***************************************************************************)

InitGroups ==
    /\ IdleNorm /\ IdleProbe /\ IdleDyn
    /\ MainInit({<<B_COM, WWW \o A_COM>>}, {<<80, 443>>, <<443, 80>>},
                {<<TRUE, FALSE>>, <<FALSE, FALSE>>})

NextGroups ==
    \/ LoadInput
    \/ UsageError
    \/ ResolveAll({Addr1, Addr2})
    \/ ScanTarget({Failed, Answered(200, None)}, {Page(404, <<>>)}, {Page(404, <<>>)},
                  {<<<<Addr1>>, <<Addr1>>, <<Addr1>>>>}, Len(normalized_fqdns) * Len(ports))
    \/ EndGroup
    \/ PrintResults

SpecGroups == InitGroups /\ [][NextGroups]_vars

(***************************************************************************)
(* SpecNorm: normalize_fqdns on every list main can hand it, and on its    *)
(* own output                                                              *)
(***************************************************************************)

InitNorm ==
    /\ \E f \in SeqsUpTo(FileLines, MaxLines) : fqdnsIn = ReadLines(f)
    /\ out1 = <<>> /\ out2 = <<>> /\ npc = "start"
    /\ IdleProbe /\ IdleDyn /\ IdleMain

Normalize ==
    /\ npc = "start"
    /\ out1' = normalize_fqdns(fqdnsIn)
    /\ npc' = "once"
    /\ UNCHANGED <<fqdnsIn, out2, probeVars, dynVars, mainVars>>

NormalizeAgain ==
    /\ npc = "once"
    /\ out2' = normalize_fqdns(out1)
    /\ npc' = "twice"
    /\ UNCHANGED <<fqdnsIn, out1, probeVars, dynVars, mainVars>>

NextNorm == Normalize \/ NormalizeAgain

SpecNorm == InitNorm /\ [][NextNorm]_vars

(***************************************************************************)
(* SpecProbe: one content probe on one response                            *)
(***************************************************************************)

MaxBody == 2

GetStatuses == {200, 301, 404}

InitProbe ==
    /\ pKind \in {"wp", "robots"}
    /\ pReply \in {Failed} \cup
          {Page(c, t) : c \in GetStatuses, t \in SeqsUpTo(BodyFragments, MaxBody)}
    /\ pResult = <<>> /\ ppc = "start"
    /\ IdleNorm /\ IdleDyn /\ IdleMain

CallWordpress ==
    /\ ppc = "start" /\ pKind = "wp"
    /\ pResult' = check_wordpress(pReply)
    /\ ppc' = "done"
    /\ UNCHANGED <<pKind, pReply, normVars, dynVars, mainVars>>

CallRobots ==
    /\ ppc = "start" /\ pKind = "robots"
    /\ pResult' = check_robots(pReply)
    /\ ppc' = "done"
    /\ UNCHANGED <<pKind, pReply, normVars, dynVars, mainVars>>

NextProbe == CallWordpress \/ CallRobots

SpecProbe == InitProbe /\ [][NextProbe]_vars

(***************************************************************************)
(* SpecDyn: one call of detect_dynamic_dns, every run of three lookups     *)
(***************************************************************************)

InitDyn ==
    /\ dAnswers \in [1..ATTEMPTS -> {None} \cup {<<a>> : a \in {Addr1, Addr2, Addr3}}]
    /\ dResult = <<>> /\ dpc = "start"
    /\ IdleNorm /\ IdleProbe /\ IdleMain

CallDetect ==
    /\ dpc = "start"
    /\ dResult' = detect_dynamic_dns(dAnswers)
    /\ dpc' = "done"
    /\ UNCHANGED <<dAnswers, normVars, probeVars, mainVars>>

NextDyn == CallDetect

SpecDyn == InitDyn /\ [][NextDyn]_vars

(***************************************************************************)
(* Properties of the scan                                                  *)
(***************************************************************************)

IsLine(r) == r # EmptyLine
Lines == {k \in DOMAIN results : IsLine(results[k])}
Target(fqdn, port) == <<fqdn, port>>
LineTarget(k) == Target(results[k].fqdn, results[k].port)
SentTarget(i) == Target(sent[i].url.host, sent[i].url.port)
SentOf(probe, t) == {i \in DOMAIN sent : sent[i].probe = probe /\ SentTarget(i) = t}
LinesOf(t) == {k \in Lines : LineTarget(k) = t}

\* C1: a target whose reachability probe (grab_banner) brought no status code
\* has no line in results and is sent no /wp-login.php and no /robots.txt
\* request, and every line in results is of a target whose reachability
\* probe brought a status code, whatever checks were asked for and whatever
\* the content probes would have answered.
C1_ReachabilityGate ==
    /\ \A i \in DOMAIN sent :
          (sent[i].probe = "banner" /\ ~sent[i].reply.ok) =>
              /\ LinesOf(SentTarget(i)) = {}
              /\ SentOf("wp", SentTarget(i)) = {}
              /\ SentOf("robots", SentTarget(i)) = {}
    /\ \A k \in Lines :
          \E i \in SentOf("banner", LineTarget(k)) : sent[i].reply.ok

\* a finished scan, both checks asked for, in which one target did not answer
\* and another did
C1_Witness ==
    /\ pc = "done" /\ args_wp /\ args_robots
    /\ \E i \in DOMAIN sent : sent[i].probe = "banner" /\ ~sent[i].reply.ok
    /\ Lines # {}

\* C6: for a target whose reachability probe brought a status code, a content
\* probe that fails is recorded as "No Response" for that check and for no
\* other; each check asked for is sent once and its own outcome is in the
\* line, exactly one line being appended for the target; and the scan goes on
\* to every remaining target.
C6_ProbeFailureIsolated ==
    /\ \A i \in DOMAIN sent :
          (sent[i].probe = "banner" /\ sent[i].reply.ok) =>
              LET t == SentTarget(i)
              IN  /\ Cardinality(LinesOf(t)) = 1
                  /\ Cardinality(SentOf("wp", t)) = IF args_wp THEN 1 ELSE 0
                  /\ Cardinality(SentOf("robots", t)) = IF args_robots THEN 1 ELSE 0
                  /\ \A k \in LinesOf(t) :
                        /\ ~args_wp => results[k].wp = None
                        /\ ~args_robots => results[k].robots = None
                        /\ \A j \in SentOf("wp", t) :
                              /\ results[k].wp = <<check_wordpress(sent[j].reply)[1]>>
                              /\ results[k].wp = <<plain("No Response")>> <=> ~sent[j].reply.ok
                        /\ \A j \in SentOf("robots", t) :
                              /\ results[k].robots = <<check_robots(sent[j].reply)[1]>>
                              /\ results[k].robots = <<plain("No Response")>>
                                    <=> ~sent[j].reply.ok
    /\ pc = "done" =>
          \A f \in Range(normalized_fqdns), p \in Range(ports) :
              SentOf("banner", Target(f, p)) # {}

\* a finished scan in which the first target's /wp-login.php request failed,
\* its /robots.txt request found the file, and a later target got its line
C6_Witness ==
    /\ pc = "done"
    /\ \E k \in Lines :
          /\ results[k].wp = <<plain("No Response")>>
          /\ results[k].robots = <<colored("robots.txt found!", "green")>>
          /\ \E m \in Lines : m > k

\* C10: detect_dynamic_dns runs, and a line can say "Dynamic DNS: Yes", only
\* in a run that asked for dynamic-DNS detection; in any other run it is
\* never called and every line says "Dynamic DNS: No".
C10_DynamicOptIn ==
    ~args_dynamic =>
        /\ detects = 0
        /\ \A k \in Lines : results[k].dynamic_dns = "No"

(***************************************************************************)
(* Properties of the order of results                                      *)
(***************************************************************************)

IndexIn(s, x) == CHOOSE i \in DOMAIN s : s[i] = x /\ \A j \in 1..(i - 1) : s[j] # x
\* where, in normalized_fqdns, the address of this name was first met
FirstMet(fqdn) ==
    CHOOSE i \in DOMAIN normalized_fqdns :
        /\ fqdn_to_ip[normalized_fqdns[i]] = fqdn_to_ip[fqdn]
        /\ \A j \in 1..(i - 1) : fqdn_to_ip[normalized_fqdns[j]] # fqdn_to_ip[fqdn]
LineKey(k) ==
    <<FirstMet(results[k].fqdn), IndexIn(normalized_fqdns, results[k].fqdn),
      IndexIn(ports, results[k].port)>>
LexLeq(a, b) ==
    \/ a[1] < b[1]
    \/ a[1] = b[1] /\ a[2] < b[2]
    \/ a[1] = b[1] /\ a[2] = b[2] /\ a[3] <= b[3]
EmptyBetween(i, j) == {k \in DOMAIN results : i < k /\ k < j /\ ~IsLine(results[k])}

\* C7: the lines of the names that share an address (the unresolved names
\* being one group) are contiguous in results, and between the last line of
\* one group and the first line of the next group that has lines there is
\* exactly one empty line, also when a group in between has no line.
C7_GroupBoundaries ==
    \A i \in Lines, j \in Lines :
        i < j =>
            /\ fqdn_to_ip[results[i].fqdn] = fqdn_to_ip[results[j].fqdn] =>
                  \A k \in DOMAIN results : (i < k /\ k < j) =>
                      /\ IsLine(results[k])
                      /\ fqdn_to_ip[results[k].fqdn] = fqdn_to_ip[results[i].fqdn]
            /\ (/\ fqdn_to_ip[results[i].fqdn] # fqdn_to_ip[results[j].fqdn]
                /\ \A k \in Lines : ~(i < k /\ k < j)) =>
                  Cardinality(EmptyBetween(i, j)) = 1

\* C9: for two lines of results, the earlier one is not greater than the later
\* one in (the place where its group's address was first met in
\* normalized_fqdns, the place of its name in normalized_fqdns, the place of
\* its port in the port list), compared lexicographically.
C9_EmissionOrder ==
    \A i \in Lines, j \in Lines : i < j => LexLeq(LineKey(i), LineKey(j))

\* a finished scan whose lines are not in the order of normalized_fqdns,
\* a later name sharing the address of an earlier group, with both ports of
\* one name answering
C9_Witness ==
    /\ pc = "done"
    /\ \E i \in Lines, j \in Lines :
          /\ i < j
          /\ IndexIn(normalized_fqdns, results[i].fqdn)
                > IndexIn(normalized_fqdns, results[j].fqdn)
    /\ \E i \in Lines, j \in Lines :
          i < j /\ results[i].fqdn = results[j].fqdn

(***************************************************************************)
(* Properties of normalize_fqdns                                           *)
(***************************************************************************)

\* s without one leading "www.", if it has one
StripOneWww(s) == IF StartsWith(s, WWW) THEN SubSeq(s, 5, Len(s)) ELSE s
Count(l, x) == Cardinality({k \in DOMAIN l : l[k] = x})
\* what follows the first "www." of s, if any, begins neither with another
\* "www." nor with white space
SinglePrefix(s) ==
    StartsWith(s, WWW) =>
        /\ ~StartsWith(StripOneWww(s), WWW)
        /\ StripOneWww(s) # <<>> => Head(StripOneWww(s)) \notin Whitespace

\* C2 as stated: normalize_fqdns(normalize_fqdns(X)) = normalize_fqdns(X) for
\* every list X of host strings, strings under more than one "www." included
\* (read here for the host strings that hold no white space).
C2_Idempotent ==
    (npc = "twice" /\ \A i \in DOMAIN fqdnsIn : Range(fqdnsIn[i]) \cap Whitespace = {})
        => out2 = out1

\* C2 as amended: normalize_fqdns(normalize_fqdns(X)) = normalize_fqdns(X) for
\* every list X of stripped strings none of which has, after its first
\* "www.", another "www." or white space.
C2_IdempotentSinglePrefix ==
    (npc = "twice" /\ \A i \in DOMAIN fqdnsIn : SinglePrefix(fqdnsIn[i])) => out2 = out1

\* normalize_fqdns applied twice to a list of two or more such strings, one of
\* them under a "www."
C2_Witness ==
    /\ npc = "twice"
    /\ \A i \in DOMAIN fqdnsIn : SinglePrefix(fqdnsIn[i])
    /\ \E i \in DOMAIN fqdnsIn : StartsWith(fqdnsIn[i], WWW)
    /\ Len(fqdnsIn) >= 2

\* C3: for every base name b, an input string without one leading "www.", the
\* output holds b once and "www." + b once, and it holds nothing else.
C3_BothFormsOnce ==
    npc # "start" =>
        LET base == {StripOneWww(fqdnsIn[i]) : i \in DOMAIN fqdnsIn}
        IN  /\ \A b \in base : Count(out1, b) = 1 /\ Count(out1, WWW \o b) = 1
            /\ \A k \in DOMAIN out1 : out1[k] \in base \cup {WWW \o b : b \in base}

\* normalize_fqdns applied to a list in which the base name of one string is
\* the "www." form of the base name of another
C3_Witness ==
    /\ npc = "once"
    /\ \E i \in DOMAIN fqdnsIn, j \in DOMAIN fqdnsIn :
          StripOneWww(fqdnsIn[i]) = WWW \o StripOneWww(fqdnsIn[j])

ExampleInput == <<B_COM, WWW \o A_COM, A_COM>>

\* C4 as stated: normalize_fqdns(["b.com", "www.a.com", "a.com"]) is
\* ["a.com", "www.a.com", "b.com", "www.b.com"].
C4_ExampleAsStated ==
    (npc # "start" /\ fqdnsIn = ExampleInput) =>
        out1 = <<A_COM, WWW \o A_COM, B_COM, WWW \o B_COM>>

\* C4 as amended: normalize_fqdns(["b.com", "www.a.com", "a.com"]) is
\* ["a.com", "b.com", "www.a.com", "www.b.com"], the strings in sorted order.
C4_ExampleSorted ==
    (npc # "start" /\ fqdnsIn = ExampleInput) =>
        out1 = <<A_COM, B_COM, WWW \o A_COM, WWW \o B_COM>>

\* normalize_fqdns applied to the example
C4_Witness == npc = "once" /\ fqdnsIn = ExampleInput

(***************************************************************************)
(* Properties of the content probes                                        *)
(***************************************************************************)

Markers ==
    IF pKind = "wp"
    THEN {"username or email address", "wp-includes", "https://wordpress.org"}
    ELSE {"user-agent:", "disallow:"}
FoundLabel ==
    IF pKind = "wp" THEN colored("WordPress detected!", "green")
    ELSE colored("robots.txt found!", "green")
NotFoundLabel ==
    IF pKind = "wp" THEN colored("No WordPress instance found.", "red")
    ELSE colored("No robots.txt found.", "red")
MarkerInBody == \E m \in Markers : In(m, lower(pReply.text))

\* C5: a content probe reports Found exactly when the request brought status
\* 200 and the lower-cased body holds one of the check's markers; NotFound,
\* with the status code, exactly when a status code came and that is not the
\* case; "No Response", with no status code, exactly when the request failed;
\* and it reports one of the three.
C5_ThreeWayOutcome ==
    ppc = "done" =>
        LET hit == pReply.ok /\ pReply.status_code = 200 /\ MarkerInBody
        IN  /\ pResult[1] = FoundLabel <=> hit
            /\ pResult[1] = NotFoundLabel <=> (pReply.ok /\ ~hit)
            /\ pResult[1] = plain("No Response") <=> ~pReply.ok
            /\ pResult[1] \in {FoundLabel, NotFoundLabel, plain("No Response")}
            /\ pResult[2] = IF pReply.ok THEN <<pReply.status_code>> ELSE None

\* check_wordpress on a 200 response whose body holds the marker in mixed case
C5_Witness ==
    /\ ppc = "done" /\ pKind = "wp"
    /\ pReply.ok /\ pReply.status_code = 200
    /\ In("Username or Email Address", pReply.text)
    /\ pResult[1] = FoundLabel

(***************************************************************************)
(* Properties of detect_dynamic_dns                                        *)
(***************************************************************************)

\* C8: detect_dynamic_dns makes all three lookups, a failed one not ending
\* the others, and returns true exactly when the lookups that succeeded
\* brought more than one address.
C8_ToleratesFailedLookup ==
    dpc = "done" =>
        /\ dResult.lookups = 3
        /\ dResult.dynamic <=>
              Cardinality({dAnswers[i][1] : i \in {n \in 1..3 : dAnswers[n] # None}}) > 1

====
